---- MODULE Spec2Model ----
(***************************************************************************)
(* ayon-unreal: the pre-launch hook that installs a Qt binding into        *)
(* Unreal's bundled python (hooks/pre_pyside_install.py) and the Alembic   *)
(* animation loader (plugins/load/load_alembic_animation.py).              *)
(*                                                                         *)
(* A python str is a sequence of characters.  A character is a TLA+ string;*)
(* in the launch contexts of the hook a whole file or directory name is    *)
(* written as one character where its spelling does not matter.  None is   *)
(* the empty option <<>>, a value v that may be None is carried as <<v>>.  *)
(***************************************************************************)
EXTENDS Integers, Sequences, FiniteSets, TLC

VARIABLES
    \* ---- InstallQtBinding (pre_pyside_install.py) ----
    platform,        \* system().lower()
    executable,      \* launch_context.executable.executable_path
    realVersion,     \* minor version of the interpreter bundled with the editor
    fs,              \* the paths that exist on disk
    pipStdout,       \* what "<python> -m pip list" prints
    projectSettings, \* get_project_settings(project)
    pywin32,         \* whether the pywin32 modules can be imported
    pc,              \* position of execute()
    hook,            \* locals of _execute and what execute() did
    \* ---- pure functions under test ----
    fnIn,            \* arguments of the function applied
    fnOut,           \* [done, value]: whether it was applied, and its result
    \* ---- AnimationAlembicLoader (load_alembic_animation.py) ----
    directories,     \* Content Browser directories
    assets,          \* asset path -> [class, file, meta, saved]
    last             \* what the last loader call did

vars == <<platform, executable, realVersion, fs, pipStdout, projectSettings,
          pywin32, pc, hook, fnIn, fnOut, directories, assets, last>>

hookVars == <<platform, executable, realVersion, fs, pipStdout,
              projectSettings, pywin32, pc, hook>>
fnVars == <<fnIn, fnOut>>
loaderVars == <<directories, assets, last>>

None == <<>>
Some(v) == <<v>>

-----------------------------------------------------------------------------
(* python str and os.path operations used by the hook *)

\* sep occurs in s at position i
IsAt(s, sep, i) ==
    /\ i + Len(sep) - 1 <= Len(s)
    /\ SubSeq(s, i, i + Len(sep) - 1) = sep

\* s.split(sep): the pieces of s between the non-overlapping occurrences of
\* sep, scanned left to right; always at least one piece
RECURSIVE split(_, _)
split(s, sep) ==
    IF \E i \in 1..Len(s) : IsAt(s, sep, i)
    THEN LET i == CHOOSE k \in 1..Len(s) :
                    /\ IsAt(s, sep, k)
                    /\ \A j \in 1..(k - 1) : ~IsAt(s, sep, j)
         IN  <<SubSeq(s, 1, i - 1)>> \o split(SubSeq(s, i + Len(sep), Len(s)), sep)
    ELSE <<s>>

\* sep.join(parts)
RECURSIVE join(_, _)
join(parts, sep) ==
    IF Len(parts) = 0 THEN <<>>
    ELSE IF Len(parts) = 1 THEN parts[1]
    ELSE parts[1] \o sep \o join(Tail(parts), sep)

\* os.sep and os.linesep of the platform
os_sep(plat) == IF plat = "windows" THEN <<"\\">> ELSE <<"/">>
os_linesep(plat) == IF plat = "windows" THEN <<"\r", "\n">> ELSE <<"\n">>

\* the loop of find_parent_directory run from the first component to the last
RECURSIVE find_parent_loop_forward(_, _, _, _)
find_parent_loop_forward(path_components, target_dir, i, sep) ==
    IF i < 1 THEN None
    ELSE LET k == Len(path_components) - i + 1
         IN  IF path_components[k] = target_dir
             THEN Some(join(SubSeq(path_components, 1, k), sep))
             ELSE find_parent_loop_forward(path_components, target_dir, i - 1, sep)

\* the loop of find_parent_directory, from the last component to the first
RECURSIVE find_parent_loop(_, _, _, _)
find_parent_loop(path_components, target_dir, i, sep) ==
    IF i < 1 THEN None
    ELSE IF path_components[i] = target_dir
         THEN Some(join(SubSeq(path_components, 1, i), sep))
         ELSE find_parent_loop(path_components, target_dir, i - 1, sep)

find_parent_directory(file_path, target_dir, sep) ==
    LET path_components == split(file_path, sep)
    IN  find_parent_loop(path_components, target_dir, Len(path_components), sep)

-----------------------------------------------------------------------------
(* is_pyside_installed: the parse of "pip list" *)

Whitespace == {" ", "\t", "\r", "\n"}

\* str.lower(), character by character
lower_char(c) ==
    CASE c = "P" -> "p"
      [] c = "S" -> "s"
      [] c = "Q" -> "q"
      [] OTHER -> c
lower(s) == [i \in 1..Len(s) |-> lower_char(s[i])]

\* str.strip(): leading and trailing whitespace removed
RECURSIVE lstrip(_)
lstrip(s) == IF Len(s) > 0 /\ s[1] \in Whitespace THEN lstrip(Tail(s)) ELSE s
RECURSIVE rstrip(_)
rstrip(s) ==
    IF Len(s) > 0 /\ s[Len(s)] \in Whitespace
    THEN rstrip(SubSeq(s, 1, Len(s) - 1)) ELSE s
strip(s) == lstrip(rstrip(s))

\* s[:n]
slice_to(s, n) == SubSeq(s, 1, IF n < Len(s) THEN n ELSE Len(s))

\* the loop "for idx in range(2, len(lines))" compared case-sensitively
RECURSIVE pyside_loop_case_sensitive(_, _, _, _)
pyside_loop_case_sensitive(lines, idx, package_len, pyside_name) ==
    IF idx > Len(lines) THEN "False"
    ELSE LET line == lines[idx]
         IN  IF line = <<>>
             THEN pyside_loop_case_sensitive(lines, idx + 1, package_len, pyside_name)
             ELSE IF strip(slice_to(line, package_len)) = pyside_name
                  THEN "True"
                  ELSE pyside_loop_case_sensitive(lines, idx + 1, package_len, pyside_name)

\* the loop "for idx in range(2, len(lines))"; idx counts from 1 here
RECURSIVE pyside_loop(_, _, _, _)
pyside_loop(lines, idx, package_len, pyside_name) ==
    IF idx > Len(lines) THEN "False"
    ELSE LET line == lines[idx]
             package_name == strip(slice_to(line, package_len))
         IN  IF line = <<>>
             THEN pyside_loop(lines, idx + 1, package_len, pyside_name)
             ELSE IF lower(package_name) = lower(pyside_name)
                  THEN "True"
                  ELSE pyside_loop(lines, idx + 1, package_len, pyside_name)

\* is_pyside_installed on the decoded stdout of "pip list": "True", "False",
\* or "IndexError" when lines[1] does not exist
is_pyside_installed(stdout, pyside_name, linesep) ==
    LET lines == split(stdout, linesep)
    IN  IF Len(lines) < 2 THEN "IndexError"
        ELSE LET package_dashes == split(lines[2], <<" ">>)[1]
                 package_len == Len(package_dashes)
             IN  pyside_loop(lines, 3, package_len, pyside_name)

-----------------------------------------------------------------------------
(* use_dependency_path and the argument lists of the installers.  A settings *)
(* dict is a function from the keys it has to their values; the value of     *)
(* "use_dependency" is a boolean, the value of "dependency_path" a str.      *)

\* settings.get(key)
dict_get(settings, key) ==
    IF key \in DOMAIN settings THEN Some(settings[key]) ELSE None

\* "if settings.get('use_dependency')"
use_dependency_set(settings) == dict_get(settings, "use_dependency") = Some(TRUE)

\* "if dependency_path": neither None nor ""
dependency_path_set(settings) ==
    /\ "dependency_path" \in DOMAIN settings
    /\ settings["dependency_path"] # <<>>

\* f"--find-links={dependency_path}"
find_links(dependency_path) == <<"--find-links=">> \o dependency_path

\* use_dependency_path with the two options put before the last argument
use_dependency_path_inserted(commands, settings) ==
    IF use_dependency_set(settings) /\ dependency_path_set(settings)
    THEN SubSeq(commands, 1, Len(commands) - 1)
            \o << <<"--no-index">>, find_links(settings["dependency_path"]) >>
            \o <<commands[Len(commands)]>>
    ELSE commands

\* use_dependency_path: commands.extend([...]) and return commands
use_dependency_path(commands, settings) ==
    IF use_dependency_set(settings)
    THEN IF dependency_path_set(settings)
         THEN commands \o << <<"--no-index">>, find_links(settings["dependency_path"]) >>
         ELSE commands
    ELSE commands

\* the warning use_dependency_path logs
use_dependency_path_log(settings) ==
    IF use_dependency_set(settings) /\ ~dependency_path_set(settings)
    THEN << <<"warning", "Skipping to install Pyside with dependency">> >>
    ELSE <<>>

PySide2 == <<"P", "y", "S", "i", "d", "e", "2">>
PySide6 == <<"P", "y", "S", "i", "d", "e", "6">>
fake_exe == <<"f", "a", "k", "e", ".", "e", "x", "e">>

\* Path.as_posix(): backslashes become slashes on windows
as_posix(path, plat) ==
    IF plat = "windows"
    THEN [i \in 1..Len(path) |-> IF path[i] = "\\" THEN "/" ELSE path[i]]
    ELSE path

\* the args list of install_pyside before use_dependency_path
install_pyside_args(python_executable, pyside_name, plat) ==
    << as_posix(python_executable, plat), <<"-m">>, <<"pip">>, <<"install">>,
       <<"--ignore-installed">>, pyside_name >>

\* the args list of install_pyside_windows before use_dependency_path
install_pyside_windows_args(pyside_name) ==
    << fake_exe, <<"-m">>, <<"pip">>, <<"install">>,
       <<"--ignore-installed">>, pyside_name >>

\* subprocess.list2cmdline: arguments joined by spaces, an argument that is
\* empty or holds a space or a tab put in double quotes
list2cmdline_arg(arg) ==
    IF arg = <<>> \/ \E i \in 1..Len(arg) : arg[i] \in {" ", "\t"}
    THEN <<"\"">> \o arg \o <<"\"">>
    ELSE arg
list2cmdline(args) ==
    join([i \in 1..Len(args) |-> list2cmdline_arg(args[i])], <<" ">>)

\* str.lstrip(chars): leading characters that are in chars removed
RECURSIVE lstrip_chars(_, _)
lstrip_chars(s, chars) ==
    IF Len(s) > 0 /\ \E i \in 1..Len(chars) : chars[i] = s[1]
    THEN lstrip_chars(Tail(s), chars) ELSE s

\* lpParameters of ShellExecuteEx
windows_parameters(args) ==
    lstrip_chars(lstrip_chars(list2cmdline(args), fake_exe), <<" ">>)

-----------------------------------------------------------------------------
(* InstallQtBinding: module constants and the steps of _execute *)

python_versions == 7..13
MAX_PYSIDE2_PYTHON_VERSION == 10

\* os.path.basename: what follows the last separator
path_seps(plat) == IF plat = "windows" THEN {"\\", "/"} ELSE {"/"}
RECURSIVE basename(_, _)
basename(path, plat) ==
    IF Len(path) = 0 \/ path[Len(path)] \in path_seps(plat) THEN <<>>
    ELSE Append(basename(SubSeq(path, 1, Len(path) - 1), plat), path[Len(path)])

\* expected_executable = "UnrealEditor" (+ ".exe" on windows)
expected_executable(plat) ==
    IF plat = "windows" THEN <<"UnrealEditor">> \o <<".exe">> ELSE <<"UnrealEditor">>

\* os.path.join(a, b) and Path(a) / b
path_join(a, b, plat) == a \o os_sep(plat) \o b

\* os.path.join(versions_dir, "ThirdParty", "Python3", "Win64")
unreal_python_dir(versions_dir, plat) ==
    path_join(path_join(path_join(versions_dir, <<"ThirdParty">>, plat),
                        <<"Python3">>, plat), <<"Win64">>, plat)

\* path_str.format(version=version): the placeholder replaced by the number
format_version(path_str, version) ==
    [i \in 1..Len(path_str) |->
        IF path_str[i] = "{version}" THEN ToString(version) ELSE path_str[i]]

\* the loop of _find_python_executable over the versions not yet tried; a set
\* of small ints is iterated in ascending order
RECURSIVE find_python_loop(_, _, _)
find_python_loop(path_str, versions, files) ==
    IF versions = {} THEN <<None, None>>
    ELSE LET version == CHOOSE v \in versions : \A w \in versions : v <= w
             python_dir == format_version(path_str, version)
         IN  IF python_dir \in files
             THEN <<Some(python_dir), Some(version)>>
             ELSE find_python_loop(path_str, versions \ {version}, files)

_find_python_executable(path_str, files) ==
    find_python_loop(path_str, python_versions, files)

\* lines 93-99: the interpreter looked for in python_dir
python_executable_in(python_dir, py_version, plat, files) ==
    IF plat = "windows" THEN path_join(python_dir, <<"python.exe">>, plat)
    ELSE IF path_join(python_dir, <<"python">>, plat) \in files
         THEN path_join(python_dir, <<"python">>, plat)
         ELSE path_join(python_dir, <<"python3.", ToString(py_version), "m">>, plat)

\* lines 108-110
pyside_name_for(py_version) ==
    IF py_version <= MAX_PYSIDE2_PYTHON_VERSION THEN PySide2 ELSE PySide6

\* python's exception classes: those "except Exception" catches, and the rest
ExceptionClasses ==
    {"TypeError", "IndexError", "KeyError", "AttributeError", "OSError",
     "PermissionError", "SubprocessError", "ImportError"}
OSErrorClasses == {"OSError", "PermissionError"}

CrashedLog == <<"warning", "Processing of InstallQtBinding crashed.">>

\* execute() with "except OSError" in the place of "except Exception"
execute_except_oserror(h, exc) ==
    IF exc \in OSErrorClasses
    THEN [h EXCEPT !.raised = exc, !.log = Append(@, CrashedLog),
                   !.returned = "None"]
    ELSE [h EXCEPT !.raised = exc, !.propagated = exc]

\* execute(): what happens to an exception that leaves _execute
execute_except(h, exc) ==
    IF exc \in ExceptionClasses
    THEN [h EXCEPT !.raised = exc, !.log = Append(@, CrashedLog),
                   !.returned = "None"]
    ELSE [h EXCEPT !.raised = exc, !.propagated = exc]

\* a subprocess run: the exception Popen or communicate raised ("None" when
\* none), and the exit code otherwise
PosixOutcomes ==
    {[exc |-> "None", returncode |-> c] : c \in {0, 1}}
        \cup {[exc |-> e, returncode |-> 0] :
                e \in {"PermissionError", "OSError", "SubprocessError"}}
WindowsOutcomes ==
    {[exc |-> "None", returncode |-> c] : c \in {0, 1}}
        \cup {[exc |-> "pywintypes.error", returncode |-> 0]}

\* install_pyside with "return process.returncode != 0"
install_pyside_nonzero(outcome) ==
    IF outcome.exc = "None"
    THEN (IF outcome.returncode = 0 THEN "False" ELSE "True")
    ELSE "None"

\* install_pyside, lines 212-233: "True", "False" or "None"
install_pyside(outcome) ==
    IF outcome.exc \in {"PermissionError", "OSError", "SubprocessError"}
    THEN "None"
    ELSE IF outcome.returncode = 0 THEN "True" ELSE "False"

\* the warnings install_pyside logs, lines 223-231
install_pyside_log(outcome) ==
    CASE outcome.exc = "PermissionError" -> << <<"warning", "Permission denied with command">> >>
      [] outcome.exc = "OSError" -> << <<"warning", "OS error has occurred">> >>
      [] OTHER -> <<>>

\* install_pyside_windows, lines 165-198, once pywin32 is imported
install_pyside_windows(outcome) ==
    IF outcome.exc = "pywintypes.error" THEN "None"
    ELSE IF outcome.returncode = 0 THEN "True" ELSE "False"

SuccessLog == <<"info", "Successfully installed module to unreal.">>
FailedLog == <<"warning", "Failed to install module to unreal.">>

\* lines 130-135: "if result"
result_log(result) == IF result = "True" THEN SuccessLog ELSE FailedLog

\* lines 114-117 without the early return
skip_install_never(installed) == FALSE

\* lines 114-117: return when the binding is already installed
skip_install(installed) == installed = "True"

-----------------------------------------------------------------------------
(* The launch contexts the hook is run in *)

Platforms == {"windows", "linux"}

\* directories the engine may be unpacked in, as path components
EngineRoots ==
    { << <<>>, <<"UE">>, <<"Engine">> >>,
      << <<>>, <<"Binaries">>, <<"UE">>, <<"Engine">> >> }

ExecutableKinds == {"editor", "other", "no_binaries"}

ExecutablePath(root, kind, plat) ==
    join(CASE kind = "editor" ->
                root \o << <<"Binaries">>, <<"Win64">>, expected_executable(plat) >>
           [] kind = "other" ->
                root \o << <<"Binaries">>, <<"Win64">>, <<"UnrealEditor-Cmd">> >>
           [] OTHER ->
                << <<>>, <<"UE">>, <<"bin">>, expected_executable(plat) >>,
         os_sep(plat))

\* <root>/Binaries/ThirdParty/Python3/Win64
PythonHome(root, plat) ==
    join(root \o << <<"Binaries">>, <<"ThirdParty">>, <<"Python3">>, <<"Win64">> >>,
         os_sep(plat))

FsKinds == {"none", "dir", "python", "pymalloc", "both"}

\* what is on disk: the python directory, the interpreter named python or
\* python.exe, the interpreter named after its own version
Files(kind, root, plat, version) ==
    LET home == PythonHome(root, plat)
        python == path_join(home, IF plat = "windows" THEN <<"python.exe">>
                                  ELSE <<"python">>, plat)
        pymalloc == path_join(home, <<"python3.", ToString(version), "m">>, plat)
    IN  CASE kind = "none" -> {}
          [] kind = "dir" -> {home}
          [] kind = "python" -> {home, python}
          [] kind = "pymalloc" -> {home, pymalloc}
          [] OTHER -> {home, python, pymalloc}

PipHeader == <<"N", " ", "V">>
PipDashes == <<"-", "-", "-", "-", "-", "-", "-", " ", "-">>
PipLine(package) == package \o <<" ", "5">>

\* what "pip list" may print: nothing, or a table with or without the binding
PipOutputs(plat) ==
    { <<>>,
      join(<<PipHeader, PipDashes, PipLine(<<"p", "i", "p">>), <<>> >>, os_linesep(plat)),
      join(<<PipHeader, PipDashes, PipLine(<<"p", "i", "p">>), PipLine(PySide2), <<>> >>,
           os_linesep(plat)),
      join(<<PipHeader, PipDashes, PipLine(lower(PySide6)), <<>> >>, os_linesep(plat)) }

DependencyDir == <<"/", "deps">>

PrelaunchSettings ==
    { [use_dependency |-> FALSE, dependency_path |-> DependencyDir],
      [use_dependency |-> TRUE, dependency_path |-> DependencyDir],
      [use_dependency |-> TRUE, dependency_path |-> <<>>],
      [use_dependency |-> TRUE] }

ProjectSettings ==
    { [core |-> TRUE], [core |-> TRUE, unreal |-> [project_setup |-> TRUE]] }
        \cup {[core |-> TRUE, unreal |-> [prelaunch_settings |-> ps]] :
                ps \in PrelaunchSettings}

HookStart ==
    [versions_dir |-> None, python_dir |-> None, py_version |-> None,
     python_executable |-> None, pyside_name |-> None, installed |-> "not run",
     prelaunch_settings |-> None, args |-> <<>>, parameters |-> None,
     outcome |-> None, installs |-> 0, result |-> "not run", log |-> <<>>,
     raised |-> "None", propagated |-> "None", returned |-> "not returned"]

HookInit ==
    /\ platform \in Platforms
    /\ realVersion \in python_versions
    /\ \E root \in EngineRoots, ek \in ExecutableKinds, fk \in FsKinds :
          /\ executable = ExecutablePath(root, ek, platform)
          /\ fs = Files(fk, root, platform, realVersion)
    /\ pipStdout \in {None} \cup {Some(out) : out \in PipOutputs(platform)}
    /\ projectSettings \in ProjectSettings
    /\ pywin32 \in (IF platform = "windows" THEN BOOLEAN ELSE {FALSE})
    /\ pc = "start"
    /\ hook = HookStart

HookIdle ==
    /\ platform = "linux" /\ realVersion = 7 /\ executable = <<>> /\ fs = {}
    /\ pipStdout = None /\ projectSettings = [core |-> TRUE] /\ pywin32 = FALSE
    /\ pc = "idle" /\ hook = HookStart

FnIdle == fnIn = <<>> /\ fnOut = [done |-> FALSE, value |-> None]

LoaderIdle ==
    /\ directories = {} /\ assets = <<>> /\ last = <<>>

hookInputs == <<platform, executable, realVersion, fs, pipStdout,
                projectSettings, pywin32>>

-----------------------------------------------------------------------------
(* execute(): _execute in steps, each wrapped by the try of execute() *)

return_none(h) == [h EXCEPT !.returned = "None"]

\* lines 70-82
CheckExecutable ==
    /\ pc = "start"
    /\ IF basename(executable, platform) # expected_executable(platform)
       THEN /\ hook' = return_none([hook EXCEPT !.log =
                          Append(@, <<"info", "Executable does not lead to editor">>)])
            /\ pc' = "done"
       ELSE /\ pc' = "find_python"
            /\ UNCHANGED hook
    /\ UNCHANGED <<hookInputs, fnVars, loaderVars>>

\* lines 83-110
FindPython ==
    /\ pc = "find_python"
    /\ LET versions_dir == find_parent_directory(executable, <<"Binaries">>,
                                                 os_sep(platform))
       IN  IF versions_dir = None
           THEN \* os.path.join(None, ...) raises TypeError
                /\ hook' = execute_except(hook, "TypeError")
                /\ pc' = "done"
           ELSE LET python_dir_str == unreal_python_dir(versions_dir[1], platform)
                    found == _find_python_executable(python_dir_str, fs)
                    python_dir == found[1]
                    py_version == found[2]
                    h1 == [hook EXCEPT !.versions_dir = versions_dir,
                                       !.python_dir = python_dir,
                                       !.py_version = py_version]
                IN  IF python_dir = None
                    THEN /\ hook' = return_none([h1 EXCEPT !.log =
                                Append(@, <<"warning", "Couldn't find python directory">>)])
                         /\ pc' = "done"
                    ELSE LET python_executable ==
                                 python_executable_in(python_dir[1], py_version[1],
                                                      platform, fs)
                             h2 == [h1 EXCEPT !.python_executable = Some(python_executable)]
                         IN  IF python_executable \notin fs
                             THEN /\ hook' = return_none([h2 EXCEPT !.log =
                                        Append(@, <<"warning", "Couldn't find python executable">>)])
                                  /\ pc' = "done"
                             ELSE /\ hook' = [h2 EXCEPT !.pyside_name =
                                                Some(pyside_name_for(py_version[1]))]
                                  /\ pc' = "check_installed"
    /\ UNCHANGED <<hookInputs, fnVars, loaderVars>>

\* lines 113-117; is_pyside_installed raises what Popen raises (the stdout
\* is None then) and IndexError on an output of fewer than two lines
CheckInstalled ==
    /\ pc = "check_installed"
    /\ LET installed ==
               IF pipStdout = None THEN "OSError"
               ELSE is_pyside_installed(pipStdout[1], hook.pyside_name[1],
                                        os_linesep(platform))
           h1 == [hook EXCEPT !.installed = installed]
       IN  IF installed \notin {"True", "False"}
           THEN /\ hook' = execute_except(h1, installed)
                /\ pc' = "done"
           ELSE IF skip_install(installed)
                THEN /\ hook' = return_none([h1 EXCEPT !.log =
                            Append(@, <<"debug", "already installed">>)])
                     /\ pc' = "done"
                ELSE /\ hook' = h1
                     /\ pc' = "get_settings"
    /\ UNCHANGED <<hookInputs, fnVars, loaderVars>>

\* lines 120-122
GetSettings ==
    /\ pc = "get_settings"
    /\ LET unreal_settings == dict_get(projectSettings, "unreal")
       IN  IF unreal_settings = None
           THEN \* None["prelaunch_settings"]
                /\ hook' = execute_except(hook, "TypeError")
                /\ pc' = "done"
           ELSE IF "prelaunch_settings" \notin DOMAIN unreal_settings[1]
                THEN /\ hook' = execute_except(hook, "KeyError")
                     /\ pc' = "done"
                ELSE /\ hook' = [hook EXCEPT !.prelaunch_settings =
                                    Some(unreal_settings[1]["prelaunch_settings"])]
                     /\ pc' = "install"
    /\ UNCHANGED <<hookInputs, fnVars, loaderVars>>

\* lines 126-135 with install_pyside, lines 200-233
InstallPosix ==
    /\ pc = "install"
    /\ platform # "windows"
    /\ \E outcome \in PosixOutcomes :
          LET settings == hook.prelaunch_settings[1]
              args == use_dependency_path(
                          install_pyside_args(hook.python_executable[1],
                                              hook.pyside_name[1], platform),
                          settings)
              result == install_pyside(outcome)
          IN  hook' = return_none([hook EXCEPT
                        !.args = args,
                        !.outcome = Some(outcome),
                        !.installs = @ + 1,
                        !.result = result,
                        !.log = @ \o use_dependency_path_log(settings)
                                  \o install_pyside_log(outcome)
                                  \o <<result_log(result)>>])
    /\ pc' = "done"
    /\ UNCHANGED <<hookInputs, fnVars, loaderVars>>

\* lines 123-125, 130-135 with install_pyside_windows, lines 137-198
InstallWindows ==
    /\ pc = "install"
    /\ platform = "windows"
    /\ IF ~pywin32
       THEN hook' = return_none([hook EXCEPT
                        !.result = "None",
                        !.log = @ \o << <<"warning", "Couldn't import 'pywin32' modules">>,
                                        result_log("None") >>])
       ELSE \E outcome \in WindowsOutcomes :
               LET settings == hook.prelaunch_settings[1]
                   args == use_dependency_path(
                               install_pyside_windows_args(hook.pyside_name[1]),
                               settings)
                   result == install_pyside_windows(outcome)
               IN  hook' = return_none([hook EXCEPT
                             !.args = args,
                             !.parameters = Some(windows_parameters(args)),
                             !.outcome = Some(outcome),
                             !.installs = @ + 1,
                             !.result = result,
                             !.log = @ \o use_dependency_path_log(settings)
                                       \o <<result_log(result)>>])
    /\ pc' = "done"
    /\ UNCHANGED <<hookInputs, fnVars, loaderVars>>

Init == HookInit /\ FnIdle /\ LoaderIdle

Next ==
    \/ CheckExecutable
    \/ FindPython
    \/ CheckInstalled
    \/ GetSettings
    \/ InstallPosix
    \/ InstallWindows

Spec == Init /\ [][Next]_vars

-----------------------------------------------------------------------------
(* Properties of the hook, checked under Spec *)

InLog(entry) == \E i \in 1..Len(hook.log) : hook.log[i] = entry

\* C1: execute() never lets an exception out: whatever _execute raised was
\* caught, the "crashed" warning was logged, and execute returned None.
C1_ExecuteNeverPropagates ==
    /\ hook.propagated = "None"
    /\ pc = "done" =>
          /\ hook.returned = "None"
          /\ hook.raised # "None" => hook.log[Len(hook.log)] = CrashedLog

\* C1 witness: the settings had no 'prelaunch_settings' and the KeyError of
\* _execute ended in execute's handler.
C1_Witness ==
    /\ pc = "done"
    /\ hook.raised = "KeyError"
    /\ hook.installed = "False"

\* C3: the install command is started at most once in a run, only after
\* is_pyside_installed returned False, and never when the binding is there,
\* the executable is not the editor, or no python was found.
C3_InstallAtMostOnce ==
    /\ hook.installs <= 1
    /\ hook.installs >= 1 => hook.installed = "False"
    /\ hook.installed = "True" => hook.installs = 0
    /\ basename(executable, platform) # expected_executable(platform)
          => hook.installs = 0
    /\ hook.python_dir = None => hook.installs = 0
    /\ (hook.python_executable = None \/ hook.python_executable[1] \notin fs)
          => hook.installs = 0

\* C3 witness: the one install of the run failed and the run ended.
C3_Witness ==
    /\ pc = "done"
    /\ hook.installs = 1
    /\ hook.result = "False"

\* the condition under which the two options are to be present
DependencyWanted(settings) ==
    /\ "use_dependency" \in DOMAIN settings
    /\ settings["use_dependency"] = TRUE
    /\ "dependency_path" \in DOMAIN settings
    /\ Len(settings["dependency_path"]) > 0

\* the arguments at positions 1-5, with the program at position 1
CommandHead(args) ==
    /\ Len(args) >= 6
    /\ args[1] = (IF platform = "windows" THEN fake_exe
                  ELSE as_posix(hook.python_executable[1], platform))
    /\ SubSeq(args, 2, 5) = << <<"-m">>, <<"pip">>, <<"install">>, <<"--ignore-installed">> >>

\* C4 as claimed: the options come before the package name, which is the last
\* argument of the list.
C4_PackageNameLast ==
    hook.args # <<>> =>
        LET args == hook.args
            settings == hook.prelaunch_settings[1]
        IN  /\ CommandHead(args)
            /\ args[Len(args)] = hook.pyside_name[1]
            /\ Len(args) = (IF DependencyWanted(settings) THEN 8 ELSE 6)

\* C4 amended: the list is <python> -m pip install --ignore-installed
\* <package>, followed by --no-index and --find-links=<path> exactly when
\* use_dependency is truthy and dependency_path is non-empty; the package
\* name is the sixth argument and the options, when present, come after it.
\* On windows the first element is the placeholder fake.exe.
C4_OptionsAfterPackageName ==
    hook.args # <<>> =>
        LET args == hook.args
            settings == hook.prelaunch_settings[1]
        IN  /\ CommandHead(args)
            /\ args[6] = hook.pyside_name[1]
            /\ IF DependencyWanted(settings)
               THEN /\ Len(args) = 8
                    /\ args[7] = <<"--no-index">>
                    /\ args[8] = <<"--find-links=">> \o settings["dependency_path"]
               ELSE Len(args) = 6

\* C4 witness: an install was started with the dependency path in use.
C4_Witness ==
    /\ pc = "done"
    /\ hook.installs = 1
    /\ Len(hook.args) = 8
    /\ hook.args[8] = <<"--find-links=">> \o DependencyDir

\* C8: the binding follows the interpreter that is there: PySide2 exactly
\* for python <= 3.10, PySide6 exactly for 3.11 to 3.13.
C8_BindingFollowsInterpreter ==
    hook.pyside_name # None =>
        /\ hook.pyside_name[1] = PySide2 <=> realVersion <= MAX_PYSIDE2_PYTHON_VERSION
        /\ hook.pyside_name[1] = PySide6 <=> realVersion \in 11..13

\* C10: install_pyside gives True exactly for exit code 0, False for another
\* exit code, None for PermissionError, OSError and SubprocessError, and lets
\* no exception out; only True leads to the success message, everything else
\* to the "Failed to install" warning.
C10_InstallResult ==
    /\ (hook.outcome # None /\ platform # "windows") =>
          LET outcome == hook.outcome[1]
          IN  /\ hook.result = "True" <=>
                    (outcome.exc = "None" /\ outcome.returncode = 0)
              /\ hook.result = "False" <=>
                    (outcome.exc = "None" /\ outcome.returncode # 0)
              /\ hook.result = "None" <=>
                    outcome.exc \in {"PermissionError", "OSError", "SubprocessError"}
              /\ hook.raised = "None"
    /\ hook.result # "not run" =>
          /\ hook.result = "True" => (InLog(SuccessLog) /\ ~InLog(FailedLog))
          /\ hook.result # "True" => (InLog(FailedLog) /\ ~InLog(SuccessLog))

\* C10 witness: Popen raised OSError, install_pyside returned None and the
\* failure was logged.
C10_Witness ==
    /\ pc = "done"
    /\ platform = "linux"
    /\ hook.outcome # None
    /\ hook.outcome[1].exc = "OSError"
    /\ hook.result = "None"
    /\ InLog(FailedLog)

-----------------------------------------------------------------------------
(* find_parent_directory and is_pyside_installed applied to every short input *)

MaxPathLen == 5
MaxStdoutLen == 6

BoundedSeq(S, n) == UNION {[1..k -> S] : k \in 0..n}

PathChars == {"/", "a", "B"}
TargetDirs == { <<"B">>, <<"B", "a">> }

InitPath ==
    /\ HookIdle /\ LoaderIdle
    /\ fnIn \in [file_path : BoundedSeq(PathChars, MaxPathLen),
                 target_dir : TargetDirs]
    /\ fnOut = [done |-> FALSE, value |-> None]

CallFindParentDirectory ==
    /\ ~fnOut.done
    /\ fnOut' = [done |-> TRUE,
                 value |-> find_parent_directory(fnIn.file_path, fnIn.target_dir,
                                                 os_sep(platform))]
    /\ UNCHANGED <<fnIn, hookVars, loaderVars>>

SpecPath == InitPath /\ [][CallFindParentDirectory]_vars

StdoutChars == {"\n", "-", " ", "P", "p"}
PackageNames == { <<"P">>, <<"p", "P">> }

InitPip ==
    /\ HookIdle /\ LoaderIdle
    /\ fnIn \in [stdout : BoundedSeq(StdoutChars, MaxStdoutLen),
                 pyside_name : PackageNames]
    /\ fnOut = [done |-> FALSE, value |-> "not run"]

CallIsPysideInstalled ==
    /\ ~fnOut.done
    /\ fnOut' = [done |-> TRUE,
                 value |-> is_pyside_installed(fnIn.stdout, fnIn.pyside_name,
                                               os_linesep(platform))]
    /\ UNCHANGED <<fnIn, hookVars, loaderVars>>

SpecPip == InitPip /\ [][CallIsPysideInstalled]_vars

IsPrefix(r, s) == Len(r) <= Len(s) /\ SubSeq(s, 1, Len(r)) = r

\* r is a prefix of s that ends where a component of s ends, and that
\* component is target
EndsWithComponent(r, s, target) ==
    /\ IsPrefix(r, s)
    /\ Len(r) = Len(s) \/ s[Len(r) + 1] = "/"
    /\ Len(r) >= Len(target)
    /\ SubSeq(r, Len(r) - Len(target) + 1, Len(r)) = target
    /\ Len(r) = Len(target) \/ r[Len(r) - Len(target)] = "/"

\* C5: find_parent_directory gives None when no component of the path is
\* target_dir, and otherwise the prefix of the path that ends with the
\* deepest component equal to target_dir.
C5_FindParentDirectory ==
    fnOut.done =>
        LET file_path == fnIn.file_path
            target == fnIn.target_dir
            hits == {n \in 0..Len(file_path) :
                        EndsWithComponent(SubSeq(file_path, 1, n), file_path, target)}
        IN  /\ fnOut.value = None <=> hits = {}
            /\ fnOut.value # None =>
                  /\ Len(fnOut.value[1]) \in hits
                  /\ fnOut.value[1] = SubSeq(file_path, 1, Len(fnOut.value[1]))
                  /\ \A n \in hits : n <= Len(fnOut.value[1])

\* C5 witness: two components are target_dir and the deeper one ends the
\* result, which is a proper prefix of the path.
C5_Witness ==
    /\ fnOut.done
    /\ fnIn.file_path = <<"B", "/", "B", "/", "a">>
    /\ fnIn.target_dir = <<"B">>
    /\ fnOut.value = Some(<<"B", "/", "B">>)

\* the length of the first run of dashes of a line, 0 when it has none
RECURSIVE DashRun(_)
DashRun(line) ==
    IF Len(line) > 0 /\ line[1] = "-" THEN 1 + DashRun(Tail(line)) ELSE 0
RECURSIVE FirstDashRun(_)
FirstDashRun(line) ==
    IF Len(line) > 0 /\ line[1] # "-" THEN FirstDashRun(Tail(line)) ELSE DashRun(line)

\* the ruler line of a pip table: dashes and spaces, starting with a dash
IsRuler(line) ==
    /\ \A i \in 1..Len(line) : line[i] \in {"-", " "}
    /\ Len(line) > 0 => line[1] = "-"

\* the lines of a text, cut at each newline
RECURSIVE TextLines(_, _)
TextLines(text, current) ==
    IF text = <<>> THEN <<current>>
    ELSE IF text[1] = "\n" THEN <<current>> \o TextLines(Tail(text), <<>>)
    ELSE TextLines(Tail(text), Append(current, text[1]))

\* C6: on a pip table (a second line that is a ruler), with the first dash
\* run of the second line as the column width, the answer is True exactly
\* when a non-empty line from the third on has its name column, stripped,
\* equal to pyside_name ignoring case, and False otherwise.
C6_IsPysideInstalled ==
    fnOut.done =>
        LET lines == TextLines(fnIn.stdout, <<>>)
        IN  (Len(lines) >= 2 /\ IsRuler(lines[2])) =>
                LET width == FirstDashRun(lines[2])
                    found == \E idx \in 3..Len(lines) :
                                /\ lines[idx] # <<>>
                                /\ lower(strip(slice_to(lines[idx], width)))
                                      = lower(fnIn.pyside_name)
                IN  /\ fnOut.value \in {"True", "False"}
                    /\ fnOut.value = "True" <=> found

\* C6 witness: the package is listed in another case, behind a space-padded
\* column, and is found.
C6_Witness ==
    /\ fnOut.done
    /\ fnIn.stdout = <<"\n", "-", "-", "\n", "p", " ">>
    /\ fnIn.pyside_name = <<"P">>
    /\ fnOut.value = "True"

-----------------------------------------------------------------------------
(* AnimationAlembicLoader.  A Content Browser path is the sequence of its     *)
(* components, a component the sequence of the pieces its name is built from. *)

MaxVersion == 1

AYON_ASSET_DIR == <<"/Game/Ayon">>
Folders == {"sh010", "sh020"}
ProductNames == {"animMain"}
Versions == {-1} \cup 1..MaxVersion
Representations == {"abc", "abc_proxy"}
Presets == {"maya", "custom"}

\* the context of a load or update: folder, product, version, representation
Contexts ==
    [folder_name : Folders, name : ProductNames, version : Versions,
     representation : Representations]
representation_id(ctx) == <<ctx.name, ctx.version, ctx.representation>>
version_id(ctx) == <<ctx.name, ctx.version>>
\* get_representation_path / filepath_from_context
representation_path(ctx) == <<"file", ctx.folder_name, representation_id(ctx)>>

\* f"{version:03d}"
pad3(version) ==
    IF version < 10 THEN <<"0", "0", ToString(version)>>
    ELSE IF version < 100 THEN <<"0", ToString(version)>>
    ELSE <<ToString(version)>>

\* lines 101-104
asset_name_of(folder_name, name) ==
    IF folder_name # "" THEN <<folder_name, "_", name>> ELSE <<name>>

\* lines 105-110
name_version_of(name, version) ==
    IF version < 0 THEN <<name, "_hero">> ELSE <<name, "_v">> \o pad3(version)

\* os.path.dirname of a path of components
dirname(path) == SubSeq(path, 1, Len(path) - 1)

IsUnder(path, dir) == Len(path) > Len(dir) /\ SubSeq(path, 1, Len(dir)) = dir

\* unreal.EditorAssetLibrary.does_directory_exist
does_directory_exist(dirs, dir) == dir \in dirs

\* unreal.EditorAssetLibrary.make_directory: the directory and its parents
make_directory(dirs, dir) == dirs \cup {SubSeq(dir, 1, n) : n \in 1..Len(dir)}

\* unreal.EditorAssetLibrary.list_assets: the assets in dir, those of its
\* subdirectories only when recursive, the subdirectories themselves only
\* with include_folder
list_assets(A, dirs, dir, recursive, include_folder) ==
    {p \in DOMAIN A \cup (IF include_folder THEN dirs ELSE {}) :
        /\ IsUnder(p, dir)
        /\ recursive \/ Len(p) = Len(dir) + 1}

\* unreal.EditorAssetLibrary.delete_directory: what is left of the assets
\* and of the directories
delete_directory_assets(A, dir) ==
    [p \in {q \in DOMAIN A : ~IsUnder(q, dir)} |-> A[p]]
delete_directory_dirs(dirs, dir) ==
    {d \in dirs : d # dir /\ ~IsUnder(d, dir)}

\* tools.create_unique_asset_name(path, suffix=""): the package path and the
\* asset name, with a number added while an asset of that path exists
create_unique_asset_name(A, path) ==
    IF path \in DOMAIN A
    THEN <<SubSeq(path, 1, Len(path) - 1) \o <<Append(path[Len(path)], "1")>>,
           Append(path[Len(path)], "1")>>
    ELSE <<path, path[Len(path)]>>

\* get_task, lines 38-70: the import task, or the AttributeError of
\* loaded_options.get when loaded_options is None (the parameter's default)
get_task(filename, asset_dir, asset_name, replace, loaded_options) ==
    IF loaded_options = None
    THEN [exc |-> "AttributeError", task |-> None]
    ELSE [exc |-> "None",
          task |-> Some([filename |-> filename,
                         destination_path |-> asset_dir,
                         destination_name |-> asset_name,
                         replace_existing |-> replace,
                         automated |-> TRUE,
                         save |-> TRUE,
                         preset |-> IF loaded_options[1].abc_conversion_preset = "maya"
                                    THEN "MAYA" ELSE "CUSTOM",
                         import_type |-> "SKELETAL"])]

\* A with the asset at path set to value
put_asset(A, path, value) ==
    [p \in DOMAIN A \cup {path} |-> IF p = path THEN value ELSE A[p]]

\* asset_tools.import_asset_tasks([task]): the asset of the task's
\* destination, kept as it is when it exists and is not to be replaced
import_asset_tasks(A, task) ==
    LET path == Append(task.destination_path, task.destination_name)
    IN  IF path \in DOMAIN A /\ ~task.replace_existing THEN A
        ELSE put_asset(A, path, [class |-> "SkeletalMesh", file |-> Some(task.filename),
                                 meta |-> None, saved |-> task.save])

\* unreal_pipeline.create_container(container, path)
create_container(A, container, path) ==
    put_asset(A, Append(path, container),
              [class |-> "AssetContainer", file |-> None, meta |-> None,
               saved |-> FALSE])

\* unreal_pipeline.imprint(node, data): the keys of data written over the
\* metadata of the asset
imprint(A, node, data) ==
    LET old == IF A[node].meta = None THEN <<>> ELSE A[node].meta[1]
        new == [k \in DOMAIN old \cup DOMAIN data |->
                    IF k \in DOMAIN data THEN data[k] ELSE old[k]]
    IN  [A EXCEPT ![node].meta = Some(new)]

\* "for a in asset_content: save_asset(a)"
save_assets(A, content) ==
    [p \in DOMAIN A |-> IF p \in content THEN [A[p] EXCEPT !.saved = TRUE] ELSE A[p]]

\* the containers the pipeline lists: the imprinted AssetContainer assets,
\* each with its metadata and its objectName
Containers ==
    {p \in DOMAIN assets : assets[p].class = "AssetContainer" /\ assets[p].meta # None}

NoCall ==
    [op |-> "none", steps |-> <<>>, exc |-> "None", namespace |-> <<>>,
     before |-> {}, task |-> None]

InitLoader ==
    /\ HookIdle /\ FnIdle
    /\ directories = {}
    /\ assets = <<>>
    /\ last = NoCall

\* load, lines 72-163
Load ==
    /\ \E ctx \in Contexts, preset \in Presets :
           LET root == AYON_ASSET_DIR
               folder_name == ctx.folder_name
               asset_name == asset_name_of(folder_name, ctx.name)
               name_version == name_version_of(ctx.name, ctx.version)
               unique == create_unique_asset_name(assets, <<root, <<folder_name>>, name_version>>)
               asset_dir == unique[1]
               container_name == unique[2] \o <<"_CON">>
               fresh == ~does_directory_exist(directories, asset_dir)
               loaded_options == Some([abc_conversion_preset |-> preset])
               got == get_task(representation_path(ctx), asset_dir, asset_name, FALSE,
                               loaded_options)
               A1 == IF fresh
                     THEN create_container(import_asset_tasks(assets, got.task[1]),
                                           container_name, asset_dir)
                     ELSE assets
               dirs1 == IF fresh THEN make_directory(directories, asset_dir)
                        ELSE directories
               node == Append(asset_dir, container_name)
               data == [schema |-> "ayon:container-2.0",
                        id |-> "AYON_CONTAINER_ID",
                        folder_path |-> folder_name,
                        namespace |-> asset_dir,
                        container_name |-> container_name,
                        asset_name |-> asset_name,
                        loader |-> "AnimationAlembicLoader",
                        representation |-> representation_id(ctx),
                        parent |-> version_id(ctx),
                        product_type |-> "animation"]
               done == IF fresh THEN <<"make_directory", "import", "create_container">>
                       ELSE <<>>
           IN  IF node \notin DOMAIN A1
               THEN \* imprint finds no asset to load
                    /\ directories' = dirs1
                    /\ assets' = A1
                    /\ last' = [op |-> "load", steps |-> Append(done, "imprint"),
                                exc |-> "AttributeError", namespace |-> asset_dir,
                                before |-> DOMAIN assets,
                                task |-> IF fresh THEN got.task ELSE None]
               ELSE LET A2 == imprint(A1, node, data)
                        asset_content == list_assets(A2, dirs1, asset_dir, TRUE, TRUE)
                    IN  /\ directories' = dirs1
                        /\ assets' = save_assets(A2, asset_content)
                        /\ last' = [op |-> "load",
                                    steps |-> done \o <<"imprint", "save">>,
                                    exc |-> "None", namespace |-> asset_dir,
                                    before |-> DOMAIN assets,
                                    task |-> IF fresh THEN got.task ELSE None]
    /\ UNCHANGED <<hookVars, fnVars>>

\* update, lines 165-194; get_task is called without loaded_options
Update ==
    /\ \E node \in Containers, ctx \in Contexts :
           LET container == assets[node].meta[1]
               objectName == node[Len(node)]
               folder_name == container.asset_name
               source_path == representation_path(ctx)
               destination_path == container.namespace
               got == get_task(source_path, destination_path, folder_name, TRUE, None)
           IN  IF got.exc # "None"
               THEN /\ last' = [op |-> "update", steps |-> <<>>, exc |-> got.exc,
                                namespace |-> destination_path,
                                before |-> DOMAIN assets, task |-> None]
                    /\ UNCHANGED <<directories, assets>>
               ELSE LET A1 == import_asset_tasks(assets, got.task[1])
                        container_path == Append(container.namespace, objectName)
                        A2 == imprint(A1, container_path,
                                      [representation |-> representation_id(ctx),
                                       parent |-> version_id(ctx)])
                        asset_content == list_assets(A2, directories, destination_path,
                                                     TRUE, TRUE)
                    IN  /\ assets' = save_assets(A2, asset_content)
                        /\ last' = [op |-> "update",
                                    steps |-> <<"import", "imprint", "save">>,
                                    exc |-> "None", namespace |-> destination_path,
                                    before |-> DOMAIN assets, task |-> got.task]
                        /\ UNCHANGED directories
    /\ UNCHANGED <<hookVars, fnVars>>

\* remove, lines 196-207
Remove ==
    /\ \E node \in Containers :
           LET container == assets[node].meta[1]
               path == container.namespace
               parent_path == dirname(path)
               A1 == delete_directory_assets(assets, path)
               dirs1 == delete_directory_dirs(directories, path)
               asset_content == list_assets(A1, dirs1, parent_path, FALSE, FALSE)
               empty == Cardinality(asset_content) = 0
           IN  /\ assets' = IF empty THEN delete_directory_assets(A1, parent_path) ELSE A1
               /\ directories' = IF empty THEN delete_directory_dirs(dirs1, parent_path)
                                 ELSE dirs1
               /\ last' = [op |-> "remove",
                           steps |-> IF empty THEN <<"delete", "list", "delete_parent">>
                                     ELSE <<"delete", "list">>,
                           exc |-> "None", namespace |-> path,
                           before |-> DOMAIN assets, task |-> None]
    /\ UNCHANGED <<hookVars, fnVars>>

NextLoader == Load \/ Update \/ Remove

SpecLoader == InitLoader /\ [][NextLoader]_vars

-----------------------------------------------------------------------------
(* Properties of the loader, checked under SpecLoader *)

\* C2: update on a loaded container builds the task, runs the import,
\* imprints the container with the new representation and saves; it does not
\* fail before the import is run.
C2_UpdateCompletes ==
    last.op = "update" =>
        /\ last.exc = "None"
        /\ last.steps = <<"import", "imprint", "save">>
        /\ last.task # None
        /\ last.task[1].destination_path = last.namespace
        /\ last.task[1].replace_existing = TRUE

\* C7: remove deletes only assets under the container's own namespace.
C7_RemoveOnlyOwnNamespace ==
    last.op = "remove" =>
        \A p \in last.before \ DOMAIN assets : IsUnder(p, last.namespace)

\* C9: every load makes the directory, imports, creates the container,
\* imprints it and saves, in this order; no load imprints without having
\* imported and created the container.
C9_LoadStepsInOrder ==
    last.op = "load" =>
        last.steps = <<"make_directory", "import", "create_container", "imprint", "save">>

====
